---- MODULE Spec2Model ----
(***************************************************************************)
(* Model of the message-dispatch path of the FCM client (client.go):      *)
(* construction of a Client, the four public send operations, the direct  *)
(* HTTP transport (send), the retry loop around it and the SDK transport  *)
(* (sendByApp) with its lazily created messaging handle.                  *)
(*                                                                         *)
(* Go values are modelled as follows.                                      *)
(*   - a pointer that may be nil is a sequence: <<>> is nil, <<v>> is a   *)
(*     pointer to v;                                                       *)
(*   - an error is a record [type, status, cause]; NoErr is the nil error;*)
(*   - a Go string that carries a message identifier or an error text is  *)
(*     a record [s, n]; EmptyStr is "";                                    *)
(*   - the messaging handle *messaging.Client is a natural number, 0 for  *)
(*     nil and k for the handle returned by the k-th successful           *)
(*     app.Messaging call.                                                 *)
(***************************************************************************)
EXTENDS Integers, Sequences, FiniteSets, TLC

\* ------------------------------------------------------------------ bounds
\* largest retryAttempts argument a caller passes
MaxRetry == 3
\* largest number of registration tokens in a message
MaxRecipients == 3
\* largest number of messaging handles app.Messaging hands out
MaxHandles == 3

\* the goroutines that call the Client concurrently
Procs == {"g1", "g2"}

\* --------------------------------------------------------------- constants
DefaultEndpoint == "https://fcm.googleapis.com/fcm/send"
\* seconds
DefaultTimeout == 30
StatusOK == 200
StatusInternalServerError == 500

\* ------------------------------------------------------------------ values
Err(t, st, c) == [type |-> t, status |-> st, cause |-> c]
NoErr == Err("nil", 0, "")
ErrInvalidAPIKey == Err("errorString", 0, "client API Key is invalid")
ErrInvalidCredentialsPath == Err("errorString", 0, "credentials path is invalid")
\* the error of firebase.NewApp
ErrNewApp == Err("firebase", 0, "new app")
\* the error an Option returns
ErrOption == Err("option", 0, "option failed")
\* the error of json.Marshal
ErrMarshal == Err("json", 0, "unsupported type")
\* the error of json.Decoder.Decode
ErrDecode == Err("json", 0, "decode")
\* the error of app.Messaging
ErrMessaging == Err("firebase", 0, "messaging")
\* the error Message.Validate returns for a message with no target
ErrInvalidTarget == Err("errorString", 0, "invalid target")

Str(s, n) == [s |-> s, n |-> n]
EmptyStr == Str("", 0)
\* err.Error(): the text of an error
ErrorText(e) == Str(e.cause, e.status)
\* the identifier the provider assigns to the message sent to token t
MessageIDOf(t) == Str("projects/p/messages/", t)

\* connectionError(text) and serverError(text): the two retry-eligible
\* error types the direct transport builds
connectionError(cause) == Err("connectionError", 0, cause)
serverError(status) == Err("serverError", status, "status")
\* fmt.Errorf("%d error: %s", ...): a plain error
plainError(status) == Err("errorString", status, "status")

\* A Result and a Response, with Go's zero values
ZeroResult == [Error |-> NoErr, MessageID |-> EmptyStr, ErrorResponseCode |-> EmptyStr]
ZeroResponse ==
  [Success |-> 0, Failure |-> 0, Results |-> <<>>, Error |-> NoErr,
   MessageID |-> EmptyStr, ErrorResponseCode |-> EmptyStr]

\* ---------------------------------------------------------------- messages
\* A Message: ids is RegistrationIDs (tokens are 1..n, in order), to says
\* whether To or Condition addresses a topic, data says what msg.Data holds:
\* only strings, some non-string value that JSON can encode, or a value
\* JSON cannot encode.
DataKinds == {"strings", "number", "chan"}
TokensUpTo(n) == [i \in 1..n |-> i]
Messages ==
  [ids : {TokensUpTo(n) : n \in 0..MaxRecipients}, to : BOOLEAN, data : DataKinds]

\* Message.Validate: a message with no addressing information is rejected
Validate(msg) ==
  IF Len(msg.ids) = 0 /\ ~msg.to THEN ErrInvalidTarget ELSE NoErr

\* json.Marshal(msg): <<data, err>>; the payload is the message itself
Marshal(msg) ==
  IF msg.data = "chan" THEN <<<<>>, ErrMarshal>> ELSE <<<<msg>>, NoErr>>

\* ------------------------------------------------------------ construction
\* The Client record. client is the *http.Client ("http" or "nil"), app the
\* *firebase.App ("app" or "nil"), msgClient the messaging handle.
ClientOf(key, http, app) ==
  [apiKey |-> key, client |-> http, endpoint |-> DefaultEndpoint,
   timeout |-> DefaultTimeout, app |-> app, msgClient |-> 0]

\* NewClient(apiKey, opts...): <<client pointer, err>>
NewClient(apiKey, optsOk) ==
  IF apiKey = "" THEN <<<<>>, ErrInvalidAPIKey>>
  ELSE IF ~optsOk THEN <<<<>>, ErrOption>>
  ELSE <<<<ClientOf(apiKey, "http", "nil")>>, NoErr>>

\* the calls of firebase.NewApp that NewClientWithCredentials(path) makes
NewAppCalls(path) == IF path = "" THEN 0 ELSE 1

\* NewClientWithCredentials without the check of the path
NewClientWithCredentials_NoPathCheck(path, appOk, optsOk) ==
  IF ~appOk THEN <<<<>>, ErrNewApp>>
  ELSE IF ~optsOk THEN <<<<>>, ErrOption>>
  ELSE <<<<ClientOf("", "nil", "app")>>, NoErr>>

\* NewClientWithCredentials(path, opts...): <<client pointer, err>>
NewClientWithCredentials(path, appOk, optsOk) ==
  IF path = "" THEN <<<<>>, ErrInvalidCredentialsPath>>
  ELSE IF ~appOk THEN <<<<>>, ErrNewApp>>
  ELSE IF ~optsOk THEN <<<<>>, ErrOption>>
  ELSE <<<<ClientOf("", "nil", "app")>>, NoErr>>

\* -------------------------------------------------------- direct transport
\* What c.client.Do(req) yields: a transport error (err is its cause, "" for
\* none) or a response with a status and a body.
Raw(e, st, b) == [err |-> e, status |-> st, body |-> b]
Statuses == {200, 201, 400, 500, 503}
\* the outcomes of a request whose context is still live
LiveOutcomes ==
  {Raw("", st, "none") : st \in Statuses \ {StatusOK}}
    \cup {Raw("", StatusOK, b) : b \in {"s1f0", "garbage"}}
    \cup {Raw("dial", 0, "none"), Raw("deadline exceeded", 0, "none")}
\* the outcome of a request whose caller's context was cancelled
CanceledOutcome == Raw("context canceled", 0, "none")

\* json.NewDecoder(resp.Body).Decode(response): <<response, err>>
Decode(body) ==
  IF body = "s1f0" THEN <<<<[ZeroResponse EXCEPT !.Success = 1]>>, NoErr>>
  ELSE <<<<>>, ErrDecode>>

\* send with a status of 500 and above reported as a plain error
send_PlainOn5xx(raw) ==
  IF raw.err # "" THEN <<<<>>, connectionError(raw.err)>>
  ELSE IF raw.status # StatusOK THEN <<<<>>, plainError(raw.status)>>
  ELSE IF Decode(raw.body)[2] # NoErr THEN <<<<>>, Decode(raw.body)[2]>>
  ELSE <<Decode(raw.body)[1], NoErr>>

\* send with every status that is not 200 reported as a serverError
send_ServerOnAny(raw) ==
  IF raw.err # "" THEN <<<<>>, connectionError(raw.err)>>
  ELSE IF raw.status # StatusOK THEN <<<<>>, serverError(raw.status)>>
  ELSE IF Decode(raw.body)[2] # NoErr THEN <<<<>>, Decode(raw.body)[2]>>
  ELSE <<Decode(raw.body)[1], NoErr>>

\* send that takes every 2xx status for a success
send_OKOn2xx(raw) ==
  IF raw.err # "" THEN <<<<>>, connectionError(raw.err)>>
  ELSE IF raw.status < 200 \/ raw.status >= 300
    THEN IF raw.status >= StatusInternalServerError
           THEN <<<<>>, serverError(raw.status)>>
           ELSE <<<<>>, plainError(raw.status)>>
  ELSE IF Decode(raw.body)[2] # NoErr THEN <<<<>>, Decode(raw.body)[2]>>
  ELSE <<Decode(raw.body)[1], NoErr>>

\* send that returns the Response it allocated along with a decoding error
send_RespOnDecodeError(raw) ==
  IF raw.err # "" THEN <<<<>>, connectionError(raw.err)>>
  ELSE IF raw.status # StatusOK
    THEN IF raw.status >= StatusInternalServerError
           THEN <<<<>>, serverError(raw.status)>>
           ELSE <<<<>>, plainError(raw.status)>>
  ELSE IF Decode(raw.body)[2] # NoErr THEN <<<<ZeroResponse>>, Decode(raw.body)[2]>>
  ELSE <<Decode(raw.body)[1], NoErr>>

\* Client.send from the return of c.client.Do on: <<*Response, error>>
send(raw) ==
  IF raw.err # "" THEN <<<<>>, connectionError(raw.err)>>
  ELSE IF raw.status # StatusOK
    THEN IF raw.status >= StatusInternalServerError
           THEN <<<<>>, serverError(raw.status)>>
           ELSE <<<<>>, plainError(raw.status)>>
  ELSE IF Decode(raw.body)[2] # NoErr THEN <<<<>>, Decode(raw.body)[2]>>
  ELSE <<Decode(raw.body)[1], NoErr>>

\* the request with one buffer made before the retry loop: the first
\* attempt drains it
newRequest_SharedBuffer(cl, data, k) ==
  [method |-> "POST", url |-> cl.endpoint,
   authorization |-> <<"key=", cl.apiKey>>,
   contentType |-> "application/json",
   body |-> IF k > 1 THEN <<>> ELSE data]

\* the request attempt number k of c.send builds from the payload data
newRequest(cl, data, k) ==
  [method |-> "POST", url |-> cl.endpoint,
   authorization |-> <<"key=", cl.apiKey>>,
   contentType |-> "application/json",
   body |-> data]

\* c.client.Do on a nil *http.Client dereferences nil
DoPanics(cl) == cl.client = "nil"

\* ------------------------------------------------------------- retry policy
\* the Error Classifier: connection and server errors are retry-eligible
retryEligible(err) == err.type \in {"connectionError", "serverError"}
\* the budget of retry(fn, attempts): attempts <= 1 means one attempt
retryBudget(attempts) == IF attempts <= 1 THEN 1 ELSE attempts
\* retry(fn, attempts) after fn returned err on attempt number done: TRUE
\* when fn is run again
retryAgain(err, done, attempts) ==
  err # NoErr /\ retryEligible(err) /\ done < retryBudget(attempts)

\* the closure with resp, er := c.send(ctx, data): the captured resp is
\* shadowed and keeps new(Response)
retryClosureResp_Shadowed(old, sent) == old

\* the closure of SendWithRetryWithContext: resp, er = c.send(ctx, data)
\* assigns the captured resp on every attempt
retryClosureResp(old, sent) == sent[1]
\* the end of SendWithRetryWithContext: <<*Response, error>>
retryReturn(resp, err) ==
  IF err # NoErr THEN <<<<>>, err>> ELSE <<resp, NoErr>>

\* --------------------------------------------------------------- entry code
\* SendWithContext up to the transport: what ran and where control goes.
\* next is "done" (returned err), "app" (sendByApp) or "send" (c.send)
Entry(nx, e, d, nv, nm) ==
  [next |-> nx, err |-> e, data |-> d, nValidate |-> nv, nMarshal |-> nm]
\* SendWithContext that validates on the direct branch only
SendWithContextEntry_AppFirst(cl, msg) ==
  IF cl.app # "nil" THEN Entry("app", NoErr, <<>>, 0, 0)
  ELSE IF Validate(msg) # NoErr THEN Entry("done", Validate(msg), <<>>, 1, 0)
  ELSE IF Marshal(msg)[2] # NoErr THEN Entry("done", Marshal(msg)[2], <<>>, 1, 1)
  ELSE Entry("send", NoErr, Marshal(msg)[1], 1, 1)

SendWithContextEntry(cl, msg) ==
  IF Validate(msg) # NoErr THEN Entry("done", Validate(msg), <<>>, 1, 0)
  ELSE IF cl.app # "nil" THEN Entry("app", NoErr, <<>>, 1, 0)
  ELSE IF Marshal(msg)[2] # NoErr THEN Entry("done", Marshal(msg)[2], <<>>, 1, 1)
  ELSE Entry("send", NoErr, Marshal(msg)[1], 1, 1)

\* SendWithRetryWithContext up to the retry loop
SendWithRetryWithContextEntry(cl, msg) ==
  IF Validate(msg) # NoErr THEN Entry("done", Validate(msg), <<>>, 1, 0)
  ELSE IF Marshal(msg)[2] # NoErr THEN Entry("done", Marshal(msg)[2], <<>>, 1, 1)
  ELSE Entry("send", NoErr, Marshal(msg)[1], 1, 1)

\* ------------------------------------------------------------ SDK transport
\* the error the provider reports for token t, and for a whole call
ErrProviderToken(t) == Err("fcm", t, "unregistered")
ErrProviderCall == Err("fcm", 0, "unavailable")

\* messaging.SendResponse of the token at position i
SendResponseOf(ids, failing, i) ==
  IF i \in failing
    THEN [Success |-> FALSE, MessageID |-> EmptyStr, Error |-> ErrProviderToken(ids[i])]
    ELSE [Success |-> TRUE, MessageID |-> MessageIDOf(ids[i]), Error |-> NoErr]
\* messaging.BatchResponse of a multicast to ids where the positions in
\* failing fail
BatchResponseOf(ids, failing) ==
  [SuccessCount |-> Len(ids) - Cardinality(failing),
   FailureCount |-> Cardinality(failing),
   Responses |-> [i \in 1..Len(ids) |-> SendResponseOf(ids, failing, i)]]

\* msg.Data copied with v.(string): panics on a value that is no string
DataPanics(msg) == msg.data # "strings"

\* sendByApp, one recipient, from the return (r, err) of msgClient.Send
singleResponse(r, err) ==
  <<<<[ZeroResponse EXCEPT
        !.Success = IF err # NoErr THEN 0 ELSE 1,
        !.Failure = IF err # NoErr THEN 1 ELSE 0,
        !.Error = err,
        !.ErrorResponseCode = r]>>, err>>

\* resultOf that leaves the error text out of a failed entry
resultOf_NoText(result) ==
  IF result.Error = NoErr
    THEN [ZeroResult EXCEPT !.Error = result.Error, !.MessageID = result.MessageID]
    ELSE [ZeroResult EXCEPT !.Error = result.Error]

\* one entry of res.Results from one messaging.SendResponse
resultOf(result) ==
  IF result.Error = NoErr
    THEN [ZeroResult EXCEPT !.Error = result.Error, !.MessageID = result.MessageID]
    ELSE [ZeroResult EXCEPT !.Error = result.Error,
                            !.ErrorResponseCode = ErrorText(result.Error)]

\* the counts of sendByApp's multicast branch
multicastSuccess(msg, r, err) == IF err # NoErr THEN 0 ELSE r[1].SuccessCount
multicastFailure(msg, r, err) == IF err # NoErr THEN Len(msg.ids) ELSE 0

\* sendByApp, zero or several recipients, from the return (r, err) of
\* msgClient.SendMulticast: r is a *BatchResponse. Ranging over r.Responses
\* dereferences r.
multicastResponse(msg, r, err) ==
  IF r = <<>> THEN [panic |-> TRUE, resp |-> <<>>, err |-> NoErr]
  ELSE [panic |-> FALSE,
        resp |-> <<[ZeroResponse EXCEPT
                     !.Success = multicastSuccess(msg, r, err),
                     !.Failure = multicastFailure(msg, r, err),
                     !.Results = [i \in 1..Len(r[1].Responses) |->
                                    resultOf(r[1].Responses[i])]]>>,
        err |-> err]

\* ==================================================================== state
\* c       the *Client the constructor returned (<<>> before construction and
\*         after a failed one)
\* cerr    the error the constructor returned
\* built   "no", "ok" or "failed"
\* created the number of messaging handles app.Messaging has returned
\* call    for each goroutine, the send call it is in
\* ctor    the constructor call that was made: its name, its argument, what
\*         firebase.NewApp and the Options answer, and the number of calls
\*         of firebase.NewApp it made
\* initFailed whether a call of app.Messaging has returned an error
VARIABLES c, cerr, built, created, call, ctor, initFailed
vars == <<c, cerr, built, created, call, ctor, initFailed>>

Ops == {"Send", "SendWithContext", "SendWithRetry", "SendWithRetryWithContext"}
RetryOps == {"SendWithRetry", "SendWithRetryWithContext"}
\* the operations whose context the caller supplies and may cancel
ContextOps == {"SendWithContext", "SendWithRetryWithContext"}

\* A call. pc is where it stands: "idle", "loop" (before an attempt of
\* c.send), "inflight" (inside c.client.Do), "init" (sendByApp saw a nil
\* msgClient and is calling app.Messaging), "provider" (sendByApp past the
\* handle check), "done" (returned resp, err) or "panic".
\* attempts counts the calls of c.send, outs lists what c.client.Do yielded,
\* nValidate, nMarshal, nInit and nProvider count the calls of Validate,
\* json.Marshal, app.Messaging and the provider's Send or SendMulticast,
\* used is the handle the provider call went through, cancelAt the attempt
\* that was in flight when the caller's context was cancelled (0: none),
\* failing the positions of the tokens the provider's batch reported failed.
\* now is the time, in seconds, since the call began; parentDl is the
\* deadline of the context the call runs under (<<>>: none); started, dl
\* and live are the start of the last attempt, the deadline of the context
\* its request runs under and the number of attempt contexts made by
\* context.WithTimeout and not yet cancelled. reqs lists the requests
\* handed to c.client.Do.
IdleCall ==
  [pc |-> "idle", op |-> "none", msg |-> [ids |-> <<>>, to |-> FALSE, data |-> "strings"],
   n |-> 0, ctxDone |-> FALSE, attempts |-> 0, outs |-> <<>>,
   resp |-> <<>>, err |-> NoErr, data |-> <<>>,
   nValidate |-> 0, nMarshal |-> 0, nInit |-> 0, nProvider |-> 0,
   used |-> 0, cancelAt |-> 0, failing |-> {},
   now |-> 0, parentDl |-> <<>>, started |-> 0, dl |-> <<>>, live |-> 0,
   reqs |-> <<>>]

CtorCall(fn, arg, appOk, optsOk, k) ==
  [fn |-> fn, arg |-> arg, appOk |-> appOk, optsOk |-> optsOk, newApp |-> k]

Init ==
  /\ c = <<>>
  /\ cerr = NoErr
  /\ built = "no"
  /\ created = 0
  /\ call = [p \in Procs |-> IdleCall]
  /\ ctor = CtorCall("none", "", FALSE, FALSE, 0)
  /\ initFailed = FALSE

\* ------------------------------------------------------------ construction
Constructed(r, info) ==
  /\ built = "no"
  /\ ctor' = info
  /\ c' = r[1]
  /\ cerr' = r[2]
  /\ built' = IF r[2] = NoErr THEN "ok" ELSE "failed"
  /\ UNCHANGED <<created, call, initFailed>>

NewClientCall(apiKey, optsOk) ==
  Constructed(NewClient(apiKey, optsOk),
              CtorCall("NewClient", apiKey, FALSE, optsOk, 0))

NewClientWithCredentialsCall(path, appOk, optsOk) ==
  Constructed(NewClientWithCredentials(path, appOk, optsOk),
              CtorCall("NewClientWithCredentials", path, appOk, optsOk,
                       NewAppCalls(path)))

\* ---------------------------------------------------------- send operations
\* where a call stands after its entry code
PcAfter(entry, cl) ==
  IF entry.next = "done" THEN "done"
  ELSE IF entry.next = "send" THEN "loop"
  ELSE IF cl.msgClient = 0 THEN "init" ELSE "provider"

\* the resp variable of a call that reached its transport: the retry
\* operations start from resp := new(Response)
RespAtEntry(op, entry) ==
  IF op \in RetryOps /\ entry.next = "send" THEN <<ZeroResponse>> ELSE <<>>

\* the deadline of the context a call runs under, d being the deadline of
\* the context the caller passes: Send makes its own from c.timeout,
\* SendWithRetry runs under context.Background()
callerDeadline(op, cl, d) ==
  IF op = "Send" THEN <<cl.timeout>>
  ELSE IF op = "SendWithRetry" THEN <<>>
  ELSE d

\* context.WithTimeout(parent, d) at time now: the earlier of the parent's
\* deadline and now + d
WithTimeout(parent, now, d) ==
  IF parent # <<>> /\ parent[1] < now + d THEN parent ELSE <<now + d>>

\* the deadline with one context made before the retry loop
attemptDeadline_OneContext(cl, client, now) ==
  IF cl.op \in RetryOps THEN WithTimeout(cl.parentDl, 0, client.timeout)
  ELSE cl.parentDl

\* the deadline of the context an attempt's request runs under: the retry
\* closure derives one per attempt, SendWithContext passes its own on
attemptDeadline(cl, client, now) ==
  IF cl.op \in RetryOps THEN WithTimeout(cl.parentDl, now, client.timeout)
  ELSE cl.parentDl

BeginBy(p, op, msg, n, entry, d) ==
  /\ built = "ok"
  /\ call[p].pc = "idle"
  /\ call' = [call EXCEPT ![p] =
       [IdleCall EXCEPT !.pc = PcAfter(entry, c[1]), !.op = op, !.msg = msg,
                        !.n = n, !.err = entry.err, !.data = entry.data,
                        !.resp = RespAtEntry(op, entry),
                        !.parentDl = callerDeadline(op, c[1], d),
                        !.nValidate = entry.nValidate,
                        !.nMarshal = entry.nMarshal]]
  /\ UNCHANGED <<c, cerr, built, created, ctor, initFailed>>

\* a call whose caller passes a context without deadline
Begin(p, op, msg, n, entry) == BeginBy(p, op, msg, n, entry, <<>>)

\* Send is SendWithContext under context.WithTimeout(Background, c.timeout)
Send(p, msg) == Begin(p, "Send", msg, 0, SendWithContextEntry(c[1], msg))

SendWithContext(p, msg) ==
  Begin(p, "SendWithContext", msg, 0, SendWithContextEntry(c[1], msg))

\* SendWithRetry is SendWithRetryWithContext under context.Background()
SendWithRetry(p, msg, n) ==
  Begin(p, "SendWithRetry", msg, n, SendWithRetryWithContextEntry(c[1], msg))

SendWithRetryWithContext(p, msg, n) ==
  Begin(p, "SendWithRetryWithContext", msg, n,
        SendWithRetryWithContextEntry(c[1], msg))

\* The caller cancels the context it passed.
Cancel(p) ==
  /\ call[p].pc \in {"loop", "inflight"}
  /\ call[p].op \in ContextOps
  /\ ~call[p].ctxDone
  /\ call' = [call EXCEPT ![p].ctxDone = TRUE,
                          ![p].cancelAt = IF call[p].pc = "inflight"
                                            THEN call[p].attempts ELSE 0]
  /\ UNCHANGED <<c, cerr, built, created, ctor, initFailed>>

\* c.send up to c.client.Do: one more attempt starts
StartAttempt(p) ==
  /\ call[p].pc = "loop"
  /\ call' = [call EXCEPT ![p].attempts = @ + 1,
                          ![p].pc = IF DoPanics(c[1]) THEN "panic" ELSE "inflight",
                          ![p].started = call[p].now,
                          ![p].reqs = IF DoPanics(c[1]) THEN @
                                        ELSE Append(@, newRequest(c[1], call[p].data,
                                                                  call[p].attempts + 1)),
                          ![p].dl = attemptDeadline(call[p], c[1], call[p].now),
                          ![p].live = IF call[p].op \in RetryOps /\ ~DoPanics(c[1])
                                        THEN @ + 1 ELSE @]
  /\ UNCHANGED <<c, cerr, built, created, ctor, initFailed>>

\* AfterSend with Send and SendWithContext given one more try on a
\* retry-eligible error
AfterSend_RetryOnce(cl, sent, k) ==
  IF retryAgain(sent[2], k, IF cl.op \in RetryOps THEN cl.n ELSE 2)
    THEN [pc |-> "loop", resp |-> sent[1], err |-> sent[2]]
    ELSE [pc |-> "done", resp |-> sent[1], err |-> sent[2]]

\* what a call returns after c.send returned sent on attempt number k
AfterSend(cl, sent, k) ==
  IF cl.op \in RetryOps
    THEN IF retryAgain(sent[2], k, cl.n)
           THEN [pc |-> "loop", resp |-> retryClosureResp(cl.resp, sent), err |-> sent[2]]
           ELSE [pc |-> "done",
                 resp |-> retryReturn(retryClosureResp(cl.resp, sent), sent[2])[1],
                 err |-> retryReturn(retryClosureResp(cl.resp, sent), sent[2])[2]]
    ELSE [pc |-> "done", resp |-> sent[1], err |-> sent[2]]

\* c.client.Do returns raw; c.send returns; the retry loop or the caller
\* goes on
Complete(p, raw) ==
  /\ call[p].pc = "inflight"
  /\ raw \in (IF call[p].ctxDone THEN {CanceledOutcome} ELSE LiveOutcomes)
  /\ LET a == AfterSend(call[p], send(raw), call[p].attempts)
     IN call' = [call EXCEPT ![p].pc = a.pc, ![p].resp = a.resp, ![p].err = a.err,
                             ![p].outs = Append(@, raw),
                             ![p].dl = <<>>,
                             ![p].live = IF call[p].op \in RetryOps THEN @ - 1 ELSE @]
  /\ UNCHANGED <<c, cerr, built, created, ctor, initFailed>>

\* Time passes while a request is in flight, up to its deadline.
Elapse == {10, 20}
Tick(p, d) ==
  /\ call[p].pc = "inflight"
  /\ call[p].dl # <<>>
  /\ call[p].now + d <= call[p].dl[1]
  /\ call' = [call EXCEPT ![p].now = @ + d]
  /\ UNCHANGED <<c, cerr, built, created, ctor, initFailed>>

\* c.client.Do returns under the clock: at the deadline of its context the
\* request ends with "deadline exceeded", and not before
DeadlineOutcome == Raw("deadline exceeded", 0, "none")
AtDeadline(cl) == cl.dl # <<>> /\ cl.now >= cl.dl[1]
CompleteTimed(p, raw) ==
  /\ ~call[p].ctxDone => (raw = DeadlineOutcome <=> AtDeadline(call[p]))
  /\ Complete(p, raw)

\* SendWithRetryWithContext under a caller's context that expires d seconds
\* after the call
SendWithRetryWithContextBy(p, msg, n, d) ==
  BeginBy(p, "SendWithRetryWithContext", msg, n,
          SendWithRetryWithContextEntry(c[1], msg), <<d>>)

\* the assignment that stores a handle whether or not app.Messaging failed
handleAfterInit_KeptOnError(ok, h) == h

\* what c.msgClient, err = c.app.Messaging(ctx) stores: the new handle h,
\* or the nil that comes with an error
handleAfterInit(ok, h) == IF ok THEN h ELSE 0

\* sendByApp: c.msgClient, err = c.app.Messaging(ctx)
InitHandle(p, ok) ==
  /\ call[p].pc = "init"
  /\ ok => created < MaxHandles
  /\ created' = IF ok THEN created + 1 ELSE created
  /\ c' = <<[c[1] EXCEPT !.msgClient = handleAfterInit(ok, created + 1)]>>
  /\ initFailed' = (initFailed \/ ~ok)
  /\ call' = [call EXCEPT ![p].nInit = @ + 1,
                          ![p].pc = IF ok THEN "provider" ELSE "done",
                          ![p].err = IF ok THEN NoErr ELSE ErrMessaging]
  /\ UNCHANGED <<cerr, built, ctor>>

\* sendByApp panics: a data value that is no string, or a nil msgClient
SendByAppPanic(p) ==
  /\ call[p].pc = "provider"
  /\ DataPanics(call[p].msg) \/ c[1].msgClient = 0
  /\ call' = [call EXCEPT ![p].pc = "panic"]
  /\ UNCHANGED <<c, cerr, built, created, ctor, initFailed>>

ProviderReturns(p, resp, err, panic, failing) ==
  /\ call' = [call EXCEPT ![p].pc = IF panic THEN "panic" ELSE "done",
                          ![p].resp = resp, ![p].err = err,
                          ![p].nProvider = @ + 1,
                          ![p].used = c[1].msgClient,
                          ![p].failing = failing]
  /\ UNCHANGED <<c, cerr, built, created, ctor, initFailed>>

\* sendByApp with exactly one recipient: c.msgClient.Send
SendSingle(p, ok) ==
  /\ call[p].pc = "provider"
  /\ ~DataPanics(call[p].msg) /\ c[1].msgClient # 0
  /\ Len(call[p].msg.ids) > 0 /\ Len(call[p].msg.ids) < 2
  /\ LET r == IF ok THEN MessageIDOf(call[p].msg.ids[1]) ELSE EmptyStr
         e == IF ok THEN NoErr ELSE ErrProviderCall
     IN ProviderReturns(p, singleResponse(r, e)[1], singleResponse(r, e)[2], FALSE, {})

\* sendByApp with zero or several recipients: c.msgClient.SendMulticast,
\* which returns a batch (the positions in failing failed) or a nil batch
\* and an error
SendMulticast(p, ok, failing) ==
  /\ call[p].pc = "provider"
  /\ ~DataPanics(call[p].msg) /\ c[1].msgClient # 0
  /\ ~(Len(call[p].msg.ids) > 0 /\ Len(call[p].msg.ids) < 2)
  /\ failing \subseteq 1..Len(call[p].msg.ids)
  /\ ~ok => failing = {}
  /\ LET r == IF ok THEN <<BatchResponseOf(call[p].msg.ids, failing)>> ELSE <<>>
         e == IF ok THEN NoErr ELSE ErrProviderCall
         m == multicastResponse(call[p].msg, r, e)
     IN ProviderReturns(p, m.resp, m.err, m.panic, failing)

\* the caller takes the result and may call again
Return(p) ==
  /\ call[p].pc = "done"
  /\ call' = [call EXCEPT ![p] = IdleCall]
  /\ UNCHANGED <<c, cerr, built, created, ctor, initFailed>>

\* ----------------------------------------------------------- specifications
Construct ==
  \/ \E k \in {"", "key"}, o \in BOOLEAN : NewClientCall(k, o)
  \/ \E path \in {"", "creds.json"}, a \in BOOLEAN, o \in BOOLEAN :
       NewClientWithCredentialsCall(path, a, o)

\* One goroutine uses the Client, with every operation and every message.
Main == "g1"
Next ==
  \/ Construct
  \/ \E msg \in Messages : Send(Main, msg)
  \/ \E msg \in Messages : SendWithContext(Main, msg)
  \/ \E msg \in Messages, n \in 0..MaxRetry : SendWithRetry(Main, msg, n)
  \/ \E msg \in Messages, n \in 0..MaxRetry : SendWithRetryWithContext(Main, msg, n)
  \/ Cancel(Main)
  \/ StartAttempt(Main)
  \/ \E raw \in LiveOutcomes \cup {CanceledOutcome} : Complete(Main, raw)
  \/ \E ok \in BOOLEAN : InitHandle(Main, ok)
  \/ SendByAppPanic(Main)
  \/ \E ok \in BOOLEAN : SendSingle(Main, ok)
  \/ \E ok \in BOOLEAN, f \in SUBSET (1..MaxRecipients) : SendMulticast(Main, ok, f)
  \/ Return(Main)

Spec == Init /\ [][Next]_vars

\* Two goroutines call SendWithContext concurrently on one credential-based
\* Client, with messages of one and two recipients.
ConcMessages ==
  {[ids |-> TokensUpTo(n), to |-> FALSE, data |-> "strings"] : n \in 1..2}
NextConc ==
  \/ \E a \in BOOLEAN, o \in BOOLEAN : NewClientWithCredentialsCall("creds.json", a, o)
  \/ \E p \in Procs, msg \in ConcMessages : SendWithContext(p, msg)
  \/ \E p \in Procs, ok \in BOOLEAN : InitHandle(p, ok)
  \/ \E p \in Procs : SendByAppPanic(p)
  \/ \E p \in Procs, ok \in BOOLEAN : SendSingle(p, ok)
  \/ \E p \in Procs, ok \in BOOLEAN, f \in SUBSET (1..2) : SendMulticast(p, ok, f)
  \/ \E p \in Procs : Return(p)

SpecConc == Init /\ [][NextConc]_vars

\* One goroutine retries sends on a Client built with NewClient, under the
\* clock, with and without a deadline on the caller's context.
TimedMessages == {[ids |-> TokensUpTo(1), to |-> FALSE, data |-> "strings"]}
CallerDeadlines == {40, 70}
NextTimed ==
  \/ NewClientCall("key", TRUE)
  \/ \E msg \in TimedMessages, n \in 0..MaxRetry : SendWithRetryWithContext(Main, msg, n)
  \/ \E msg \in TimedMessages, n \in 0..MaxRetry, d \in CallerDeadlines :
       SendWithRetryWithContextBy(Main, msg, n, d)
  \/ Cancel(Main)
  \/ StartAttempt(Main)
  \/ \E d \in Elapse : Tick(Main, d)
  \/ \E raw \in LiveOutcomes \cup {CanceledOutcome} : CompleteTimed(Main, raw)
  \/ Return(Main)

SpecTimed == Init /\ [][NextTimed]_vars

\* ================================================================== claims
\* raw outcomes by class
IsServerStatus(raw) == raw.err = "" /\ raw.status >= 500
IsDecodedOK(raw) == raw.err = "" /\ raw.status = 200 /\ raw.body = "s1f0"
IsNotRetryEligible(raw) ==
  /\ raw.err = ""
  /\ \/ raw.status # 200 /\ raw.status < 500
     \/ raw.status = 200 /\ raw.body = "garbage"
\* the error the claims expect of a raw outcome
ExpectedError(raw) ==
  IF raw.err # "" THEN Err("connectionError", 0, raw.err)
  ELSE IF raw.status >= 500 THEN Err("serverError", raw.status, "status")
  ELSE IF raw.status # 200 THEN Err("errorString", raw.status, "status")
  ELSE IF raw.body = "garbage" THEN ErrDecode
  ELSE NoErr
\* the message passes validation and serializes
Sendable(msg) == (Len(msg.ids) > 0 \/ msg.to) /\ msg.data # "chan"
IsMulticast(msg) == Len(msg.ids) # 1

\* C1: a retried send with retryAttempts = N >= 1 of a sendable message whose
\* every HTTP attempt is answered with a 5xx status never makes more than N
\* attempts and returns only after exactly N attempts, with a nil Response
\* and the serverError of the last attempt.
C1_ExhaustedRetries ==
  \A p \in Procs :
    LET cl == call[p] IN
    (/\ cl.op \in RetryOps /\ cl.n >= 1 /\ Sendable(cl.msg)
     /\ \A i \in 1..Len(cl.outs) : IsServerStatus(cl.outs[i]))
    => /\ cl.attempts <= cl.n
       /\ Len(cl.outs) <= cl.n
       /\ cl.pc = "done" =>
            /\ cl.attempts = cl.n
            /\ Len(cl.outs) = cl.n
            /\ cl.resp = <<>>
            /\ cl.err = ExpectedError(cl.outs[cl.n])
\* a retried send with N = 3 returned after three 5xx answers
C1_Witness ==
  \E p \in Procs :
    /\ call[p].pc = "done" /\ call[p].op = "SendWithRetryWithContext"
    /\ call[p].n = 3 /\ Len(call[p].outs) = 3
    /\ \A i \in 1..3 : IsServerStatus(call[p].outs[i])
    /\ call[p].err.type = "serverError"

\* C2: once the caller's context is cancelled while attempt k is in flight,
\* attempt k ends with the cancellation, no attempt after k is started and
\* the call returns an error that reports the cancellation.
C2_CancelStopsRetries ==
  \A p \in Procs :
    LET cl == call[p] IN
    cl.cancelAt > 0 =>
      /\ cl.attempts = cl.cancelAt
      /\ Len(cl.outs) >= cl.cancelAt => cl.outs[cl.cancelAt] = CanceledOutcome
      /\ cl.pc = "done" => cl.resp = <<>> /\ cl.err.cause = "context canceled"

\* C3: a multicast send through the SDK transport whose provider call
\* succeeds returns a Response with Success + Failure = number of recipients.
C3_MulticastCountsAddUp ==
  \A p \in Procs :
    LET cl == call[p] IN
    (cl.pc = "done" /\ cl.nProvider = 1 /\ IsMulticast(cl.msg) /\ cl.err = NoErr)
    => /\ cl.resp # <<>>
       /\ cl.resp[1].Success + cl.resp[1].Failure = Len(cl.msg.ids)

\* C4: a multicast send whose provider call fails returns normally, with the
\* call-level error and a Response with Success = 0 and Failure = number of
\* recipients; it does not crash.
C4_MulticastCallFailureReturns ==
  \A p \in Procs :
    LET cl == call[p] IN
    (cl.nProvider = 1 /\ IsMulticast(cl.msg)) =>
      /\ cl.pc # "panic"
      /\ (cl.pc = "done" /\ cl.err # NoErr) =>
           /\ cl.resp # <<>>
           /\ cl.resp[1].Success = 0
           /\ cl.resp[1].Failure = Len(cl.msg.ids)

\* C5: with concurrent SendWithContext calls on a credential-based Client the
\* messaging handle is created at most once, the stored handle is the first
\* one created and every provider call goes through it.
C5_HandleCreatedOnce ==
  /\ created <= 1
  /\ (built = "ok" /\ created >= 1) => c[1].msgClient = 1
  /\ \A p \in Procs : call[p].nProvider = 1 => call[p].used = 1

\* C6: a retried send whose first HTTP attempt yields a non-retry-eligible
\* error (a status other than 200 below 500, or an undecodable 200 body)
\* has returned after that one attempt, whatever retryAttempts is, with a nil
\* Response and that error.
C6_NoRetryOnClientError ==
  \A p \in Procs :
    LET cl == call[p] IN
    (cl.op \in RetryOps /\ Len(cl.outs) >= 1 /\ IsNotRetryEligible(cl.outs[1]))
    => /\ cl.pc = "done"
       /\ cl.attempts = 1
       /\ Len(cl.outs) = 1
       /\ cl.resp = <<>>
       /\ cl.err = ExpectedError(cl.outs[1])
\* a retried send with N = 3 returned after one 400 answer
C6_Witness ==
  \E p \in Procs :
    /\ call[p].pc = "done" /\ call[p].op \in RetryOps /\ call[p].n = 3
    /\ call[p].outs = <<Raw("", 400, "none")>>
    /\ call[p].err = Err("errorString", 400, "status")

C8_ValidationFirst ==
  \A p \in Procs :
    LET cl == call[p] IN
    cl.op \in Ops =>
      /\ cl.nValidate = 1
      /\ ~(Len(cl.msg.ids) > 0 \/ cl.msg.to) =>
           /\ cl.pc = "done"
           /\ cl.err = ErrInvalidTarget
           /\ cl.resp = <<>>
           /\ cl.data = <<>> /\ cl.nMarshal = 0
           /\ cl.attempts = 0 /\ cl.outs = <<>>
           /\ cl.nInit = 0 /\ cl.nProvider = 0
\* an invalid message was rejected on a credential-based Client, and a
\* retried call made several attempts
C8_Witness ==
  \E p \in Procs :
    /\ built = "ok" /\ c[1].app # "nil"
    /\ call[p].pc = "done" /\ call[p].op = "SendWithContext"
    /\ call[p].msg.ids = <<>> /\ ~call[p].msg.to
    /\ call[p].err = ErrInvalidTarget
C8_WitnessRetry ==
  \E p \in Procs :
    /\ call[p].op \in RetryOps /\ call[p].attempts = 3 /\ call[p].nValidate = 1

\* C9: a Client built with NewClientWithCredentials never enters c.send (it
\* has no HTTP client), and a Client built with NewClient never enters
\* sendByApp, on any of the four send operations.
C9_TransportFixed ==
  built = "ok" =>
    \A p \in Procs :
      LET cl == call[p] IN
      /\ c[1].app # "nil" => cl.attempts = 0 /\ cl.pc \notin {"loop", "inflight"}
      /\ c[1].app = "nil" =>
           cl.nInit = 0 /\ cl.nProvider = 0 /\ cl.pc \notin {"init", "provider"}

\* C10: a single-recipient send through the SDK transport returns, when the
\* provider succeeds, Success = 1, Failure = 0, the provider's message
\* identifier in MessageID and a nil Error; when the provider fails,
\* Success = 0, Failure = 1 and Error = the provider's error, also returned
\* as the call's error. Results is empty in both cases.
C10_SingleRecipientResponse ==
  \A p \in Procs :
    LET cl == call[p] IN
    (cl.pc = "done" /\ cl.nProvider = 1 /\ ~IsMulticast(cl.msg)) =>
      /\ cl.resp # <<>>
      /\ cl.resp[1].Results = <<>>
      /\ cl.resp[1].Success + cl.resp[1].Failure = 1
      /\ cl.resp[1].Error = cl.err
      /\ cl.err = NoErr =>
           /\ cl.resp[1].Success = 1 /\ cl.resp[1].Failure = 0
           /\ cl.resp[1].MessageID = MessageIDOf(cl.msg.ids[1])
      /\ cl.err # NoErr =>
           /\ cl.resp[1].Success = 0 /\ cl.resp[1].Failure = 1
           /\ cl.err = ErrProviderCall


\* the last answer of c.client.Do in a call, and whether the retry loop has
\* a further attempt to give
LastOut(cl) == cl.outs[Len(cl.outs)]
BudgetLeft(cl) == cl.op \in RetryOps /\ cl.attempts < (IF cl.n <= 1 THEN 1 ELSE cl.n)
\* the call ended with the last answer / went on to another attempt
EndedOn(cl, resp, err) == cl.resp = resp /\ cl.err = err /\ cl.pc = "done"
RetriedOrEndedOn(cl, err) ==
  /\ cl.resp = <<>> /\ cl.err = err
  /\ Len(cl.outs) = cl.attempts => (cl.pc = "done" <=> ~BudgetLeft(cl))
\* the classification of every outcome but a 200
C11_NonOK(cl, r) ==
  /\ (r.err = "" /\ r.status >= 500) =>
       RetriedOrEndedOn(cl, Err("serverError", r.status, "status"))
  /\ (r.err = "" /\ r.status < 500 /\ r.status # 200) =>
       EndedOn(cl, <<>>, Err("errorString", r.status, "status"))
  /\ r.err # "" => RetriedOrEndedOn(cl, Err("connectionError", 0, r.err))

\* C11 as stated: in the direct transport a 200 yields a decoded Response and
\* no error, a status of 500 and above a retry-eligible serverError and no
\* Response, every other status a plain error that is not retried and no
\* Response, and a request without response a retry-eligible
\* connectionError, on every attempt alike.
C11_Original ==
  \A p \in Procs :
    LET cl == call[p] IN
    Len(cl.outs) >= 1 =>
      /\ C11_NonOK(cl, LastOut(cl))
      /\ (LastOut(cl).err = "" /\ LastOut(cl).status = 200) =>
           cl.resp # <<>> /\ cl.err = NoErr /\ cl.pc = "done"

\* C11 amended: as stated, but a 200 yields the decoded Response and no error
\* only when its body decodes; a 200 whose body does not decode yields the
\* decoder's error, which is not retried, and no Response.
C11_Classification ==
  \A p \in Procs :
    LET cl == call[p] IN
    Len(cl.outs) >= 1 =>
      /\ C11_NonOK(cl, LastOut(cl))
      /\ (LastOut(cl).err = "" /\ LastOut(cl).status = 200
          /\ LastOut(cl).body = "s1f0") =>
           EndedOn(cl, <<[ZeroResponse EXCEPT !.Success = 1]>>, NoErr)
      /\ (LastOut(cl).err = "" /\ LastOut(cl).status = 200
          /\ LastOut(cl).body = "garbage") =>
           EndedOn(cl, <<>>, ErrDecode)
\* the third attempt of a retried call got a 201 after a 503 and a failed
\* connection
C11_Witness ==
  \E p \in Procs :
    /\ call[p].pc = "done" /\ call[p].op \in RetryOps
    /\ call[p].outs = <<Raw("", 503, "none"), Raw("dial", 0, "none"), Raw("", 201, "none")>>
    /\ call[p].err = Err("errorString", 201, "status")


\* C12: on a Client built with NewClient a call of Send or SendWithContext
\* makes at most one HTTP request and has returned that request's outcome as
\* soon as it is answered, also when the outcome is a serverError or a
\* connectionError.
C12_SendOnce ==
  \A p \in Procs :
    LET cl == call[p] IN
    (built = "ok" /\ c[1].app = "nil" /\ cl.op \in {"Send", "SendWithContext"}) =>
      /\ cl.attempts <= 1
      /\ Len(cl.outs) <= 1
      /\ Len(cl.outs) = 1 =>
           /\ cl.pc = "done"
           /\ cl.err = ExpectedError(cl.outs[1])
           /\ cl.resp = IF IsDecodedOK(cl.outs[1])
                          THEN <<[ZeroResponse EXCEPT !.Success = 1]>> ELSE <<>>
\* Send returned the serverError of its one request
C12_Witness ==
  \E p \in Procs :
    /\ call[p].pc = "done" /\ call[p].op = "Send" /\ call[p].attempts = 1
    /\ call[p].outs = <<Raw("", 503, "none")>>
    /\ call[p].err = Err("serverError", 503, "status")


\* C13: NewClient("") returns ErrInvalidAPIKey and no Client;
\* NewClientWithCredentials("") returns ErrInvalidCredentialsPath and no
\* Client and does not call firebase.NewApp; a failure of firebase.NewApp or
\* of an Option is returned with no Client; a constructor that returned an
\* error returned no Client, and no send call ever runs then.
C13_ConstructionFailsFast ==
  /\ (ctor.fn = "NewClient" /\ ctor.arg = "") =>
       cerr = ErrInvalidAPIKey /\ c = <<>>
  /\ (ctor.fn = "NewClientWithCredentials" /\ ctor.arg = "") =>
       cerr = ErrInvalidCredentialsPath /\ c = <<>> /\ ctor.newApp = 0
  /\ (ctor.fn = "NewClientWithCredentials" /\ ctor.arg # "" /\ ~ctor.appOk) =>
       cerr = ErrNewApp /\ c = <<>>
  /\ (ctor.fn # "none" /\ ctor.arg # "" /\ ~ctor.optsOk
      /\ (ctor.fn = "NewClientWithCredentials" => ctor.appOk)) =>
       cerr = ErrOption /\ c = <<>>
  /\ (ctor.fn # "none" /\ ctor.arg # "" /\ ctor.optsOk
      /\ (ctor.fn = "NewClientWithCredentials" => ctor.appOk)) =>
       cerr = NoErr /\ c # <<>>
  /\ cerr # NoErr <=> built = "failed"
  /\ built # "ok" => c = <<>> /\ \A p \in Procs : call[p] = IdleCall
\* NewClientWithCredentials("") was called, with an app that would have
\* loaded
C13_Witness ==
  /\ ctor.fn = "NewClientWithCredentials" /\ ctor.arg = "" /\ ctor.appOk
  /\ built = "failed" /\ cerr = ErrInvalidCredentialsPath


\* C14: after a multicast send through the SDK transport whose provider call
\* succeeded, Results has one entry per recipient and entry i is the outcome
\* of recipient i: the message identifier and no error when it was
\* delivered, the error and its text and no message identifier when it
\* failed.
C14_ResultsPerRecipient ==
  \A p \in Procs :
    LET cl == call[p] IN
    (cl.pc = "done" /\ cl.nProvider = 1 /\ IsMulticast(cl.msg) /\ cl.err = NoErr) =>
      /\ cl.resp # <<>>
      /\ Len(cl.resp[1].Results) = Len(cl.msg.ids)
      /\ \A i \in 1..Len(cl.msg.ids) :
           cl.resp[1].Results[i] =
             IF i \in cl.failing
               THEN [Error |-> Err("fcm", cl.msg.ids[i], "unregistered"),
                     MessageID |-> EmptyStr,
                     ErrorResponseCode |-> Str("unregistered", cl.msg.ids[i])]
               ELSE [Error |-> NoErr,
                     MessageID |-> Str("projects/p/messages/", cl.msg.ids[i]),
                     ErrorResponseCode |-> EmptyStr]
\* a multicast to three recipients returned with the second one failed
C14_Witness ==
  \E p \in Procs :
    /\ call[p].pc = "done" /\ call[p].nProvider = 1 /\ call[p].err = NoErr
    /\ Len(call[p].msg.ids) = 3 /\ call[p].failing = {2}
    /\ call[p].resp[1].Results[2].Error # NoErr


\* C15: every attempt of a retried send runs under a context of its own,
\* whose deadline is the attempt's start plus the configured timeout, or the
\* caller's deadline when that comes first, whatever time earlier attempts
\* took; the attempt does not outlive it, and no attempt context is left
\* uncancelled when the attempt has ended.
C15_FreshDeadlinePerAttempt ==
  \A p \in Procs :
    LET cl == call[p] IN
    cl.op \in RetryOps =>
      /\ cl.pc = "inflight" =>
           /\ cl.live = 1
           /\ cl.dl # <<>>
           /\ cl.started <= cl.now /\ cl.now <= cl.dl[1]
           /\ cl.dl[1] <= cl.started + c[1].timeout
           /\ cl.parentDl # <<>> => cl.dl[1] <= cl.parentDl[1]
           /\ \/ cl.dl[1] = cl.started + c[1].timeout
              \/ cl.parentDl # <<>> /\ cl.dl[1] = cl.parentDl[1]
      /\ cl.pc \in {"loop", "done"} => cl.live = 0
\* the second attempt, begun after a first one that took its whole 30
\* seconds, has 30 seconds of its own
C15_Witness ==
  \E p \in Procs :
    /\ call[p].pc = "inflight" /\ call[p].op \in RetryOps
    /\ call[p].attempts = 2 /\ call[p].started = 30 /\ call[p].now = 40
    /\ call[p].parentDl = <<70>> /\ call[p].dl = <<60>>


\* C16: no step of a send operation changes apiKey, endpoint, timeout, the
\* HTTP client handle or the app of a constructed Client, and the messaging
\* handle changes only from unset to set.
C16_ConfigFrame ==
  [][built = "ok" =>
       /\ c'[1].apiKey = c[1].apiKey
       /\ c'[1].endpoint = c[1].endpoint
       /\ c'[1].timeout = c[1].timeout
       /\ c'[1].client = c[1].client
       /\ c'[1].app = c[1].app
       /\ c'[1].msgClient # c[1].msgClient =>
            c[1].msgClient = 0 /\ c'[1].msgClient # 0]_vars


\* C17: a call of SendWithRetry or SendWithRetryWithContext, or of Send or
\* SendWithContext on a Client built with NewClient, that has returned has
\* returned either a Response and a nil error or a nil Response and an
\* error; a retried call that returned an error returned no Response,
\* whatever its attempts yielded.
C17_ResponseXorError ==
  \A p \in Procs :
    LET cl == call[p] IN
    (cl.pc = "done" /\ (cl.op \in RetryOps \/ c[1].app = "nil")) =>
      /\ (cl.resp # <<>>) # (cl.err # NoErr)
      /\ cl.err # NoErr => cl.resp = <<>>
\* a retried call returned the decoder's error of its second attempt
C17_Witness ==
  \E p \in Procs :
    /\ call[p].pc = "done" /\ call[p].op \in RetryOps
    /\ call[p].outs = <<Raw("", 500, "none"), Raw("", 200, "garbage")>>
    /\ call[p].resp = <<>> /\ call[p].err = ErrDecode


\* C18: a retried send serializes its message once, and each of its attempts
\* posts that payload to the Client's endpoint with the Authorization header
\* of the Client's API key.
C18_SameRequestEveryAttempt ==
  \A p \in Procs :
    LET cl == call[p] IN
    (cl.op \in RetryOps /\ built = "ok") =>
      /\ cl.nMarshal <= 1
      /\ cl.attempts >= 1 => cl.nMarshal = 1 /\ cl.data = <<cl.msg>>
      /\ Len(cl.reqs) <= cl.attempts
      /\ c[1].client # "nil" => Len(cl.reqs) = cl.attempts
      /\ \A i \in 1..Len(cl.reqs) :
           /\ cl.reqs[i].method = "POST"
           /\ cl.reqs[i].url = c[1].endpoint
           /\ cl.reqs[i].authorization = <<"key=", c[1].apiKey>>
           /\ cl.reqs[i].contentType = "application/json"
           /\ cl.reqs[i].body = <<cl.msg>>
\* a retried call has posted its third request
C18_Witness ==
  \E p \in Procs :
    /\ call[p].op \in RetryOps /\ Len(call[p].reqs) = 3
    /\ call[p].reqs[3].body = <<call[p].msg>>
    /\ call[p].reqs[3].authorization = <<"key=", "key">>


\* C19: a send through the SDK transport whose app.Messaging call failed has
\* returned that error with a nil Response and without a provider call, and
\* has left the handle unset; as long as no app.Messaging call has succeeded
\* the handle stays unset, so that every later send calls app.Messaging
\* again and none goes to the provider without a handle.
C19_FailedInitNotCached ==
  /\ (built = "ok" /\ created = 0) => c[1].msgClient = 0
  /\ \A p \in Procs :
       LET cl == call[p] IN
       /\ (cl.nInit = 1 /\ cl.err = ErrMessaging) =>
            /\ cl.pc = "done"
            /\ cl.resp = <<>>
            /\ cl.nProvider = 0 /\ cl.used = 0
            /\ c[1].msgClient = 0
       /\ (cl.pc = "provider" \/ cl.nProvider = 1) =>
            created >= 1 /\ c[1].msgClient # 0
\* after a failed app.Messaging call the next send is about to call it again
C19_Witness ==
  \E p \in Procs :
    /\ initFailed /\ created = 0
    /\ call[p].pc = "init" /\ call[p].nInit = 0

====
